---- MODULE Spec2Model ----
(***************************************************************************)
(* State-machine model of app/orchestrator.py (Orchestrator.run_graph,     *)
(* _build_graph, _run_node) and of the boundary handler execute_graph of   *)
(* app/main.py.                                                            *)
(*                                                                         *)
(* One run of run_graph is modelled.  The coroutine run_graph is the       *)
(* "main" process (run_pc); every node of the layer being executed is an   *)
(* asyncio task (task_pc).  The library pieces the code relies on are      *)
(* modelled by what they do:                                               *)
(*   - networkx.DiGraph.add_edge creates missing endpoints (without the    *)
(*     "node" attribute); topological_generations is Kahn's layering and   *)
(*     is a lazy generator;                                                *)
(*   - asyncio.Semaphore: acquire() takes a slot at once when the value is *)
(*     positive and nobody waits, otherwise queues FIFO; release() adds    *)
(*     one to the value and wakes the first waiter;                        *)
(*   - asyncio.as_completed wraps every coroutine of the layer in a task   *)
(*     (iterating a set, so the tasks start in no particular order) and    *)
(*     yields the outcomes in completion order; the awaiting coroutine     *)
(*     resumes only after every task has run its first step;               *)
(*   - tenacity.AsyncRetrying with stop_after_attempt(k) stops once        *)
(*     attempt_number >= k, sleeps otherwise, and re-raises the last       *)
(*     exception (reraise=True).                                           *)
(* The outcome of one step attempt (returns, raises, exceeds its timeout)  *)
(* is the environment's choice.                                            *)
(***************************************************************************)
EXTENDS Naturals, Integers, FiniteSets, Sequences, TLC

\* ------------------------------------------------------------------ bounds
\* largest max_retries value a NodeSpec of the model carries
MaxRetriesBound == 2
\* largest concurrency value a RunRequest of the model carries
MaxConcurrency == 2

\* node ids that may occur in a graph document
NodeIds == {"A", "B", "C"}
\* edges that may occur in a graph document (source, target)
EdgeUniverse == {<<"A", "C">>, <<"B", "C">>, <<"C", "A">>}
\* agent names a node may carry: a registered one and an unregistered one
AgentNames == {"echo", "nope"}
\* agents.py: the keys of AGENT_REGISTRY
AGENT_REGISTRY == {"echo", "sum", "http_get"}
\* tool lists a node's agent may carry: all registered, or one unregistered name
ToolLists == {<<"data_fetcher">>, <<"data_fetcher", "no_such_tool">>}
\* agents.py: the keys of TOOL_REGISTRY
TOOL_REGISTRY == {"data_fetcher", "chart_generator"}

VARIABLES
    spec_nodes,     \* GraphSpec.nodes: the node ids of the submitted graph
    spec_edges,     \* GraphSpec.edges: set of <<source, target>>
    max_retries,    \* NodeSpec.max_retries per node
    agent_name,     \* NodeSpec.agent.name per node
    tool_names,     \* the names of NodeSpec.agent.tools per node
    concurrency,    \* RunRequest.concurrency
    run_pc,         \* position of run_graph
    run_error,      \* the exception run_graph raised ("none" if none)
    g_nodes,        \* nodes of the nx.DiGraph g
    indegree_map,   \* topological_generations: remaining in-degree per node
    zero_indegree,  \* topological_generations: the next generation
    generations,    \* the generations yielded so far (sequence of sets)
    todo,           \* as_completed: number of outcomes not yet yielded
    done_queue,     \* as_completed: finished tasks, in completion order
    context,        \* run_graph's context dict (a function on its keys)
    nid,            \* run_graph's local variable nid ("unbound" before its first assignment)
    task_pc,        \* per node: state of the task running _run_node
    attempt_number, \* per node: tenacity's attempt_number = step invocations so far
    task_exc,       \* per node: the exception the task ended with ("none" if none)
    sem_value,      \* Semaphore._value
    sem_waiters,    \* Semaphore._waiters (FIFO)
    slots_held,     \* per node: limiter slots the task holds (acquired and not released)
    resolved,       \* per node: _run_node's local inputs (<<>> before line 58 ran)
    invoked_with    \* per node: the inputs the latest step invocation received (<<>> if none)

vars == <<spec_nodes, spec_edges, max_retries, agent_name, tool_names, concurrency,
          run_pc, run_error, g_nodes, indegree_map, zero_indegree, generations,
          todo, done_queue, context, nid,
          task_pc, attempt_number, task_exc, sem_value, sem_waiters,
          slots_held, resolved, invoked_with>>

inputs == <<spec_nodes, spec_edges, max_retries, agent_name, tool_names, concurrency>>
graphv == <<g_nodes, indegree_map, zero_indegree, generations>>
semv   == <<sem_value, sem_waiters, slots_held>>
inpv   == <<resolved, invoked_with>>

\* --------------------------------------------------------------- graph
\* nx.DiGraph after _build_graph's two loops: add_edge adds missing endpoints
GraphNodes(nodes, edges) ==
    nodes \cup {e[1] : e \in edges} \cup {e[2] : e \in edges}

InDegree(n, edges) == Cardinality({e \in edges : e[2] = n})

\* Kahn's peeling as topological_generations does it: TRUE iff every node is
\* eventually emitted (otherwise NetworkXUnfeasible is raised)
RECURSIVE KahnExhausts(_, _)
KahnExhausts(nodes, edges) ==
    LET zero == {n \in nodes : InDegree(n, edges) = 0}
    IN  IF nodes = {} THEN TRUE
        ELSE IF zero = {} THEN FALSE
        ELSE KahnExhausts(nodes \ zero, {e \in edges : e[1] \notin zero})

\* fault variant of the acyclicity test: the check is skipped
is_directed_acyclic_graph_skipped(nodes, edges) == TRUE

\* nx.is_directed_acyclic_graph(g)
is_directed_acyclic_graph(nodes, edges) == KahnExhausts(nodes, edges)

\* ------------------------------------------------------------- results
\* the result map a node's step returned
ResultOf(n) == [kind |-> "result", of |-> n]
\* {"error": f"node failed after retries: {e}"}
ErrorMap(e) == [kind |-> "error", of |-> e]

\* ------------------------------------------------------ _resolve_inputs
\* Every node of the model carries the same inputs: one string input per
\* placeholder ${id.key}.  "x" is the key of every step's result map, "v" a
\* key of no map, "Z" the id of no node.
Placeholders == {<<"A", "x">>, <<"B", "x">>, <<"C", "x">>, <<"A", "v">>, <<"Z", "v">>}

\* the value a node's step returns under key "x"
StepValue(n) == CASE n = "A" -> 5 [] n = "B" -> 12 [] OTHER -> 0

\* the dict stored in the context for an entry: the step's result map
\* {"x": value} or run_graph's error map {"error": "node failed after retries: ..."}
EntryMap(entry) ==
    IF entry.kind = "result"
    THEN [k \in {"x"} |-> StepValue(entry.of)]
    ELSE [k \in {"error"} |-> "node failed after retries: " \o entry.of]

DigitChar(d) ==
    CASE d = 0 -> "0" [] d = 1 -> "1" [] d = 2 -> "2" [] d = 3 -> "3" [] d = 4 -> "4"
      [] d = 5 -> "5" [] d = 6 -> "6" [] d = 7 -> "7" [] d = 8 -> "8" [] d = 9 -> "9"

\* Python's str() of a non-negative int
RECURSIVE PyStr(_)
PyStr(v) == IF v < 10 THEN DigitChar(v) ELSE PyStr(v \div 10) \o DigitChar(v % 10)

\* fault variant of _rep: a missing node id is reported as a missing key
replace_refs_confused(ctx, id, key) ==
    IF id \notin DOMAIN ctx
    THEN "<missing_key:" \o key \o ">"
    ELSE IF key \in DOMAIN EntryMap(ctx[id])
         THEN PyStr(EntryMap(ctx[id])[key])
         ELSE "<missing_key:" \o key \o ">"

\* lines 29-36, _rep: the text substituted for one match ${id.key}
replace_refs(ctx, id, key) ==
    IF id \notin DOMAIN ctx
    THEN "<missing:" \o id \o ">"
    ELSE IF key \in DOMAIN EntryMap(ctx[id])
         THEN PyStr(EntryMap(ctx[id])[key])
         ELSE "<missing_key:" \o key \o ">"

\* lines 26-45: the resolved inputs of node n, one text per placeholder
resolve_inputs(n, ctx) == [p \in Placeholders |-> replace_refs(ctx, p[1], p[2])]

\* fault variant of invoke(): the inputs are resolved again at every attempt
InputsForAttemptResolvedAgain(n, res, ctx) == resolve_inputs(n, ctx)

\* lines 73-75: invoke() passes the inputs that line 58 computed once
InputsForAttempt(n, res, ctx) == res

TaskStates == {"not_created", "pending", "waiting_sem", "invoking", "backoff",
               "succeeded", "failed"}
Terminal == {"succeeded", "failed"}

\* ---------------------------------------------------------------- Init
Init ==
    /\ spec_nodes \in SUBSET NodeIds
    /\ spec_edges \in SUBSET EdgeUniverse
    /\ max_retries \in [spec_nodes -> 0..MaxRetriesBound]
    /\ agent_name \in [spec_nodes -> AgentNames]
    /\ tool_names \in [spec_nodes -> ToolLists]
    \* the tools are looked up only after the agent was found, and max_retries is
    \* read only after both lookups succeeded: a node with an unregistered agent
    \* is enumerated with one tool list, a node with an unregistered name with
    \* one max_retries value (the largest)
    /\ \A n \in spec_nodes :
           agent_name[n] \notin AGENT_REGISTRY => tool_names[n] = <<"data_fetcher">>
    /\ \A n \in spec_nodes :
           (\/ agent_name[n] \notin AGENT_REGISTRY
            \/ \E i \in DOMAIN tool_names[n] : tool_names[n][i] \notin TOOL_REGISTRY)
               => max_retries[n] = MaxRetriesBound
    /\ concurrency \in 0..MaxConcurrency
    /\ run_pc = "start"
    /\ run_error = "none"
    /\ g_nodes = {}
    /\ indegree_map = <<>>
    /\ zero_indegree = {}
    /\ generations = <<>>
    /\ todo = 0
    /\ done_queue = <<>>
    /\ context = <<>>
    /\ nid = "unbound"
    /\ task_pc = [n \in spec_nodes |-> "not_created"]
    /\ attempt_number = [n \in spec_nodes |-> 0]
    /\ task_exc = [n \in spec_nodes |-> "none"]
    /\ sem_value = concurrency
    /\ sem_waiters = <<>>
    /\ slots_held = [n \in spec_nodes |-> 0]
    /\ resolved = [n \in spec_nodes |-> <<>>]
    /\ invoked_with = [n \in spec_nodes |-> <<>>]

\* ------------------------------------------------------------ run_graph
\* run_graph line 88-89: g = self._build_graph(spec); context = {}
BuildGraph ==
    /\ run_pc = "start"
    /\ LET gn == GraphNodes(spec_nodes, spec_edges) IN
       IF is_directed_acyclic_graph(gn, spec_edges)
       THEN /\ run_pc' = "next_layer"
            /\ g_nodes' = gn
            /\ indegree_map' = [n \in gn |-> InDegree(n, spec_edges)]
            /\ zero_indegree' = {n \in gn : InDegree(n, spec_edges) = 0}
            /\ UNCHANGED run_error
       ELSE /\ run_pc' = "raised"
            /\ run_error' = "ValueError"
            /\ UNCHANGED <<g_nodes, indegree_map, zero_indegree>>
    /\ UNCHANGED <<inputs, generations, todo, done_queue, context, nid,
                   task_pc, attempt_number, task_exc, semv, inpv>>

\* fault variant of line 92: a task is built for every node of the graph
LaunchEveryNode(pc, layer) == [n \in DOMAIN pc |-> "pending"]

\* line 92: one coroutine per node of the layer; the other nodes are untouched
LaunchLayer(pc, layer) == [n \in DOMAIN pc |-> IF n \in layer THEN "pending" ELSE pc[n]]

\* topological_generations, one step of the generator, then line 92 (the list
\* of coroutines, g.nodes[n]["node"] raising KeyError for a node that add_edge
\* created) and the call of asyncio.as_completed; after the last generation
\* line 101 returns context
NextLayer ==
    /\ run_pc = "next_layer"
    /\ IF zero_indegree = {}
       THEN /\ IF \E n \in g_nodes : indegree_map[n] > 0
               THEN run_pc' = "raised" /\ run_error' = "NetworkXUnfeasible"
               ELSE run_pc' = "returned" /\ UNCHANGED run_error
            /\ UNCHANGED <<graphv, todo, task_pc>>
       ELSE LET layer == zero_indegree
                dec(n) == Cardinality({e \in spec_edges : e[1] \in layer /\ e[2] = n})
                newmap == [n \in g_nodes |-> indegree_map[n] - dec(n)]
            IN  /\ generations' = Append(generations, layer)
                /\ indegree_map' = newmap
                /\ zero_indegree' = {n \in g_nodes : indegree_map[n] > 0 /\ newmap[n] = 0}
                /\ UNCHANGED g_nodes
                /\ IF layer \subseteq spec_nodes
                   THEN /\ task_pc' = LaunchLayer(task_pc, layer)
                        /\ todo' = Cardinality(layer)
                        /\ run_pc' = "await"
                        /\ UNCHANGED run_error
                   ELSE /\ run_pc' = "raised"
                        /\ run_error' = "KeyError"
                        /\ UNCHANGED <<todo, task_pc>>
    /\ UNCHANGED <<inputs, done_queue, context, nid, attempt_number, task_exc, semv, inpv>>

\* fault variant of the as_completed loop: the layer is left after its first outcome
LayerDrainedFirstCompleted(t) == TRUE

\* line 93: the for loop over as_completed ends when every task's outcome was yielded
LayerDrained(t) == t = 0

\* dict store context[k] = v
Store(ctx, k, v) == [x \in DOMAIN ctx \cup {k} |-> IF x = k THEN v ELSE ctx[x]]

\* lines 93-99: one iteration of the loop over as_completed.  The awaiting
\* coroutine resumes only when an outcome is queued and every task of the layer
\* has run its first step.  In the except branch nid is whatever the last
\* successful iteration left (unbound: UnboundLocalError leaves run_graph).
AwaitNext ==
    /\ run_pc = "await"
    /\ done_queue # <<>>
    /\ \A n \in spec_nodes : task_pc[n] # "pending"
    /\ LET n == Head(done_queue) IN
       /\ done_queue' = Tail(done_queue)
       /\ todo' = todo - 1
       /\ IF task_pc[n] = "succeeded"
          THEN /\ nid' = n
               /\ context' = Store(context, n, ResultOf(n))
               /\ run_pc' = IF LayerDrained(todo - 1) THEN "next_layer" ELSE "await"
               /\ UNCHANGED run_error
          ELSE IF nid = "unbound"
          THEN /\ run_pc' = "raised"
               /\ run_error' = "UnboundLocalError"
               /\ UNCHANGED <<nid, context>>
          ELSE /\ context' = Store(context, nid, ErrorMap(task_exc[n]))
               /\ run_pc' = IF LayerDrained(todo - 1) THEN "next_layer" ELSE "await"
               /\ UNCHANGED <<nid, run_error>>
    /\ UNCHANGED <<inputs, graphv, task_pc, attempt_number, task_exc, semv, inpv>>

\* main.py execute_graph lines 20-29: the status the boundary layer reports
RunStatus ==
    IF run_pc = "returned" THEN "succeeded"
    ELSE IF run_pc = "raised" THEN "failed"
    ELSE "running"

\* ------------------------------------------------------------- _run_node
\* fault variant of the limiter: acquire never finds the semaphore locked
sem_locked_never(v, w) == FALSE

\* Semaphore.locked(): no free slot, or somebody already waits
sem_locked(v, w) == v = 0 \/ w # <<>>

\* fault variant of the lookups: an unregistered name is not noticed
lookup_fails_never(agent, tools) == FALSE

\* lines 59-68: AGENT_REGISTRY.get / TOOL_REGISTRY.get found no class, so
\* ValueError is raised (before "async with self.sem" and the retry loop)
lookup_fails(agent, tools) ==
    \/ agent \notin AGENT_REGISTRY
    \/ \E i \in DOMAIN tools : tools[i] \notin TOOL_REGISTRY

\* fault variant of the retry predicate: only exceptions of the step are retried
retry_if_exception_type_runtime_only(exc) == exc = "RuntimeError"

\* line 81: retry_if_exception_type(Exception); TimeoutError and every
\* exception a step raises are instances of Exception
retry_if_exception_type(exc) == TRUE

\* fault variant of the retry policy: max_retries counts the additional attempts
stop_after_attempt_additional(a, k) == a > k

\* line 79: stop_after_attempt(node.max_retries), asked after a failed attempt a
stop_after_attempt(a, k) == a >= k

\* fault variant of the release: the slot is given back on success only
ReleaseOnSuccessOnly(n, state) ==
    /\ done_queue' = Append(done_queue, n)
    /\ IF state = "failed" \/ sem_waiters = <<>>
       THEN /\ sem_value' = IF state = "failed" THEN sem_value ELSE sem_value + 1
            /\ sem_waiters' = sem_waiters
            /\ slots_held' = [slots_held EXCEPT ![n] =
                                 IF state = "failed" THEN slots_held[n] ELSE slots_held[n] - 1]
            /\ task_pc' = [task_pc EXCEPT ![n] = state]
            /\ attempt_number' = attempt_number
            /\ invoked_with' = invoked_with
       ELSE /\ sem_value' = sem_value
            /\ sem_waiters' = Tail(sem_waiters)
            /\ slots_held' = [slots_held EXCEPT ![n] = slots_held[n] - 1,
                                                ![Head(sem_waiters)] = slots_held[Head(sem_waiters)] + 1]
            /\ task_pc' = [task_pc EXCEPT ![n] = state, ![Head(sem_waiters)] = "invoking"]
            /\ attempt_number' = [attempt_number EXCEPT ![Head(sem_waiters)] = 1]
            /\ invoked_with' = [invoked_with EXCEPT ![Head(sem_waiters)] =
                    resolved[Head(sem_waiters)]]

\* Semaphore.release() on leaving "async with self.sem": the slot goes to the
\* first waiter, which enters the retry loop and begins its first attempt, or
\* back to the value; the finished task n is queued for as_completed
ReleaseAndFinish(n, state) ==
    /\ done_queue' = Append(done_queue, n)
    /\ IF sem_waiters = <<>>
       THEN /\ sem_value' = sem_value + 1
            /\ sem_waiters' = sem_waiters
            /\ slots_held' = [slots_held EXCEPT ![n] = slots_held[n] - 1]
            /\ task_pc' = [task_pc EXCEPT ![n] = state]
            /\ attempt_number' = attempt_number
            /\ invoked_with' = invoked_with
       ELSE /\ sem_value' = sem_value
            /\ sem_waiters' = Tail(sem_waiters)
            /\ slots_held' = [slots_held EXCEPT ![n] = slots_held[n] - 1,
                                                ![Head(sem_waiters)] = slots_held[Head(sem_waiters)] + 1]
            /\ task_pc' = [task_pc EXCEPT ![n] = state, ![Head(sem_waiters)] = "invoking"]
            /\ attempt_number' = [attempt_number EXCEPT ![Head(sem_waiters)] = 1]
            /\ invoked_with' = [invoked_with EXCEPT ![Head(sem_waiters)] =
                    InputsForAttempt(Head(sem_waiters), resolved[Head(sem_waiters)], context)]

\* lines 58-78, the first step of the task: inputs resolved, agent looked up
\* (ValueError for an unregistered name, before the limiter), then
\* "async with self.sem" and, with a slot, the first attempt
StartTask(n) ==
    /\ task_pc[n] = "pending"
    /\ resolved' = [resolved EXCEPT ![n] = resolve_inputs(n, context)]
    /\ IF lookup_fails(agent_name[n], tool_names[n])
       THEN /\ task_pc' = [task_pc EXCEPT ![n] = "failed"]
            /\ task_exc' = [task_exc EXCEPT ![n] = "ValueError"]
            /\ done_queue' = Append(done_queue, n)
            /\ UNCHANGED <<attempt_number, semv, invoked_with>>
       ELSE IF sem_locked(sem_value, sem_waiters)
       THEN /\ task_pc' = [task_pc EXCEPT ![n] = "waiting_sem"]
            /\ sem_waiters' = Append(sem_waiters, n)
            /\ UNCHANGED <<attempt_number, task_exc, done_queue, sem_value, slots_held,
                           invoked_with>>
       ELSE /\ task_pc' = [task_pc EXCEPT ![n] = "invoking"]
            /\ attempt_number' = [attempt_number EXCEPT ![n] = 1]
            /\ sem_value' = sem_value - 1
            /\ slots_held' = [slots_held EXCEPT ![n] = slots_held[n] + 1]
            /\ invoked_with' = [invoked_with EXCEPT ![n] =
                    InputsForAttempt(n, resolve_inputs(n, context), context)]
            /\ UNCHANGED <<task_exc, done_queue, sem_waiters>>
    /\ UNCHANGED <<inputs, run_pc, run_error, graphv, todo, context, nid>>

\* line 85: the attempt's step returned its result map
AttemptReturns(n) ==
    /\ task_pc[n] = "invoking"
    /\ UNCHANGED task_exc
    /\ ReleaseAndFinish(n, "succeeded")
    /\ UNCHANGED <<inputs, run_pc, run_error, graphv, todo, context, nid, resolved>>

\* lines 73-85: the attempt raised (RuntimeError stands for any exception of
\* the step) or was cut off by async_timeout (TimeoutError); tenacity either
\* re-raises this last exception out of the task (reraise=True) or sleeps
\* before the next attempt
AttemptFails(n, exc) ==
    /\ task_pc[n] = "invoking"
    /\ IF ~retry_if_exception_type(exc)
          \/ stop_after_attempt(attempt_number[n], max_retries[n])
       THEN /\ task_exc' = [task_exc EXCEPT ![n] = exc]
            /\ ReleaseAndFinish(n, "failed")
       ELSE /\ task_pc' = [task_pc EXCEPT ![n] = "backoff"]
            /\ UNCHANGED <<task_exc, attempt_number, done_queue, semv, invoked_with>>
    /\ UNCHANGED <<inputs, run_pc, run_error, graphv, todo, context, nid, resolved>>

\* line 80: the wait_exponential sleep is over; the next attempt begins
BackoffElapsed(n) ==
    /\ task_pc[n] = "backoff"
    /\ task_pc' = [task_pc EXCEPT ![n] = "invoking"]
    /\ attempt_number' = [attempt_number EXCEPT ![n] = attempt_number[n] + 1]
    /\ invoked_with' = [invoked_with EXCEPT ![n] = InputsForAttempt(n, resolved[n], context)]
    /\ UNCHANGED <<inputs, run_pc, run_error, graphv, todo, done_queue, context, nid,
                   task_exc, semv, resolved>>

StepFailures == {"RuntimeError", "TimeoutError"}

Next ==
    \/ BuildGraph
    \/ NextLayer
    \/ AwaitNext
    \/ \E n \in spec_nodes : StartTask(n)
    \/ \E n \in spec_nodes : AttemptReturns(n)
    \/ \E n \in spec_nodes, exc \in StepFailures : AttemptFails(n, exc)
    \/ \E n \in spec_nodes : BackoffElapsed(n)

Spec == Init /\ [][Next]_vars

TypeOK ==
    /\ run_pc \in {"start", "next_layer", "await", "returned", "raised"}
    /\ \A n \in spec_nodes : task_pc[n] \in TaskStates
    /\ sem_value \in 0..MaxConcurrency
    /\ todo \in 0..Cardinality(NodeIds)

\* WF_vars(Next): the event loop runs whatever is ready, and every attempt of a
\* step ends (it returns, raises or is cut off by its timeout), every backoff
\* sleep ends; the specification never stops while a step is possible
FairSpec == Spec /\ WF_vars(Next)

\* ---------------------------------------------------- graph properties
\* (stated on the submitted document, independently of the code's own test)
Dangling == \E e \in spec_edges : e[1] \notin spec_nodes \/ e[2] \notin spec_nodes

Succ(S) == {e[2] : e \in {d \in spec_edges : d[1] \in S}}

RECURSIVE ReachFrom(_, _)
ReachFrom(S, k) ==
    LET T == S \cup Succ(S) IN IF k = 0 \/ T = S THEN S ELSE ReachFrom(T, k - 1)

OnCycle(n) == n \in ReachFrom(Succ({n}), Cardinality(NodeIds))

HasCycle == spec_edges # {} /\ \E n \in NodeIds : OnCycle(n)

ValidGraph == ~Dangling /\ ~HasCycle

Preds(n) == {e[1] : e \in {d \in spec_edges : d[2] = n}}

SetMax(S) == CHOOSE x \in S : \A y \in S : y <= x

\* dependency depth of a node of an acyclic graph: its layer index
RECURSIVE Depth(_)
Depth(n) == IF Preds(n) = {} THEN 0 ELSE 1 + SetMax({Depth(p) : p \in Preds(n)})

InAttemptSequence == {n \in spec_nodes : task_pc[n] \in {"invoking", "backoff"}}

NoSideEffects ==
    /\ \A n \in spec_nodes : task_pc[n] = "not_created" /\ attempt_number[n] = 0
    /\ sem_value = concurrency
    /\ sem_waiters = <<>>
    /\ context = <<>>
    /\ done_queue = <<>>

\* ------------------------------------------------------------------ claims
\* C1: for a valid acyclic graph, the mapping run_graph returns has exactly
\* one entry per node id of the graph: its keys are the node ids, no more, no less.
C1_ExactlyOneEntryPerNode ==
    (ValidGraph /\ run_pc = "returned") => DOMAIN context = spec_nodes

\* C2: in the returned mapping a permanently failed node's own entry is an
\* error map, and every node that succeeded keeps its own result map as its entry.
C2_FailureIsolation ==
    (ValidGraph /\ run_pc = "returned") =>
        \A n \in spec_nodes :
            /\ task_pc[n] = "failed" =>
                   n \in DOMAIN context /\ context[n].kind = "error"
            /\ task_pc[n] = "succeeded" =>
                   n \in DOMAIN context /\ context[n] = ResultOf(n)

\* C3: for a valid acyclic graph run_graph never raises, so the boundary layer
\* never reports the run as failed, whatever nodes fail.
C3_NodeFailureNeverFailsRun ==
    ValidGraph => RunStatus # "failed"

\* C4: an entry of the context, once written, is never overwritten or changed,
\* and a key is written only when its node is terminal.
C4_WriteOnce ==
    [][ /\ \A k \in DOMAIN context : k \in DOMAIN context' /\ context'[k] = context[k]
        /\ \A k \in DOMAIN context' \ DOMAIN context : task_pc[k] \in Terminal ]_vars

\* C5: no node of a deeper layer is launched (its task created) until every
\* node of every shallower layer is SUCCEEDED or FAILED.
C5_LayerBarrier ==
    (\E n \in spec_nodes, m \in spec_nodes :
         n # m /\ task_pc[n] # "not_created" /\ task_pc[m] \notin Terminal)
      => \/ LET depth == [x \in spec_nodes |-> Depth(x)] IN
            \A n \in spec_nodes, m \in spec_nodes :
                (task_pc[n] # "not_created" /\ depth[m] < depth[n])
                    => task_pc[m] \in Terminal
         \/ ~ValidGraph

\* C5 witness: a node of a later layer is launched after a node of an earlier
\* layer needed a retry while a sibling of that node finished at its first attempt.
C5_Witness ==
    /\ ValidGraph
    /\ \E n \in spec_nodes, m \in spec_nodes, s \in spec_nodes :
           /\ m # s /\ Depth(m) = Depth(s) /\ Depth(m) < Depth(n)
           /\ task_pc[n] # "not_created"
           /\ attempt_number[m] >= 2
           /\ attempt_number[s] = 1 /\ task_pc[s] = "succeeded"

\* C6: the number of nodes inside their attempt sequence (invoking or in
\* backoff) never exceeds the configured concurrency, and the limiter's value
\* accounts for exactly those nodes.
C6_ConcurrencyCap ==
    /\ Cardinality(InAttemptSequence) <= concurrency
    /\ sem_value + Cardinality(InAttemptSequence) = concurrency

\* C6 witness: with concurrency 1 one node of a layer is inside its attempt
\* sequence while another node of the same layer waits for the limiter.
C6_Witness ==
    /\ concurrency = 1
    /\ \E n \in spec_nodes, m \in spec_nodes :
           /\ n # m
           /\ task_pc[n] \in {"invoking", "backoff"}
           /\ task_pc[m] = "waiting_sem"

\* C7 (as claimed): every node's step is invoked at most max_retries times.
C7_AttemptBudget ==
    \A n \in spec_nodes : attempt_number[n] <= max_retries[n]

\* C7 (amended): every node's step is invoked at most max_retries times when
\* max_retries >= 1, and at most once when max_retries = 0.
C7_AttemptBudgetAmended ==
    \A n \in spec_nodes :
        attempt_number[n] <= (IF max_retries[n] = 0 THEN 1 ELSE max_retries[n])

\* C7 witness: a node with max_retries = 2 failed permanently after exactly 2 invocations.
C7_Witness ==
    \E n \in spec_nodes :
        max_retries[n] = 2 /\ attempt_number[n] = 2 /\ task_pc[n] = "failed"

\* C8: a graph whose edges contain a cycle is rejected with the validation
\* error before anything executes: run_graph is at its start or has raised
\* ValueError; no task exists, no step was invoked, the limiter is untouched
\* and the context is empty.
C8_CycleRejected ==
    HasCycle =>
        /\ run_pc \in {"start", "raised"}
        /\ run_pc = "raised" => run_error = "ValueError"
        /\ NoSideEffects

\* C8 witness: a graph with the cycle A->C, C->A and a further node B off the
\* cycle has been rejected.
C8_Witness ==
    /\ HasCycle
    /\ "B" \in spec_nodes /\ ~OnCycle("B") /\ Preds("B") = {}
    /\ run_pc = "raised"

\* C9: a graph with a dangling edge never executes anything, whichever endpoint
\* is missing: no step is invoked, no limiter slot is taken and no context
\* entry is written.
C9_DanglingRejected ==
    Dangling =>
        /\ \A n \in spec_nodes : attempt_number[n] = 0
        /\ sem_value = concurrency
        /\ context = <<>>

\* C10: for a valid acyclic graph run_graph eventually exits (returns, or at
\* least raises), whatever the limiter capacity.
C10_Terminates ==
    ValidGraph => <>(run_pc \in {"returned", "raised"})

\* ---------------------------------------------- vocabulary of C11..C20
\* the task ran its first step: its inputs are resolved
Started(n) == task_pc[n] \notin {"not_created", "pending"}

\* the sentinel text for a node id without an entry, written out
MissingText(m) ==
    CASE m = "A" -> "<missing:A>" [] m = "B" -> "<missing:B>" [] m = "C" -> "<missing:C>"

\* the string form of the value a node's step returns under "x", written out
ValueText(m) == CASE m = "A" -> "5" [] m = "B" -> "12" [] m = "C" -> "0"

\* the node names an agent or a tool that is in no registry
ConfigBad(n) ==
    \/ agent_name[n] \notin {"echo", "sum", "http_get"}
    \/ \E i \in DOMAIN tool_names[n] : tool_names[n][i] \notin {"data_fetcher", "chart_generator"}

\* the attempts a node may make: max_retries, and one when max_retries = 0 (see C7)
Budget(n) == IF max_retries[n] = 0 THEN 1 ELSE max_retries[n]

\* C11: whenever a node has resolved its inputs, every node of an earlier layer
\* had an entry in the context: a reference to it did not resolve to <missing:id>.
C11_CompleteEntryVisibility ==
    ((\E n \in spec_nodes : Started(n)) /\ ValidGraph) =>
        LET depth == [x \in spec_nodes |-> Depth(x)] IN
        \A n \in spec_nodes, m \in spec_nodes :
            (Started(n) /\ depth[m] < depth[n])
                => resolved[n][<<m, "x">>] # MissingText(m)

\* C12: for every edge a->b whose source a succeeded (its result map holds key
\* x), every invocation of b's step receives, for ${a.x}, the string form of the
\* value a's step returned.
C12_PredecessorOutputResolved ==
    ValidGraph =>
        \A e \in spec_edges :
            (task_pc[e[1]] = "succeeded" /\ attempt_number[e[2]] >= 1)
                => invoked_with[e[2]][<<e[1], "x">>] = ValueText(e[1])

\* C13: at the step in which a node resolves its inputs, ${Z.v} (Z has no
\* entry) becomes <missing:Z> and ${A.v} becomes <missing:A> when A has no
\* entry, <missing_key:v> when A has one (no map has key v); the resolution
\* does not make the node fail (a node whose names are registered goes on to
\* the limiter or its first invocation); and run_graph raises for a valid graph
\* only when some node failed.
C13_SentinelsNeverAbort ==
    /\ [][ \A n \in spec_nodes :
             (~Started(n) /\ Started(n)') =>
                 /\ resolved'[n][<<"Z", "v">>] = "<missing:Z>"
                 /\ resolved'[n][<<"A", "v">>] =
                        (IF "A" \in DOMAIN context THEN "<missing_key:v>" ELSE "<missing:A>")
                 /\ ~ConfigBad(n) => task_pc'[n] \in {"waiting_sem", "invoking"} ]_vars
    /\ []((run_pc = "raised" /\ ValidGraph) => \E n \in spec_nodes : task_pc[n] = "failed")

\* C13 witness: a run returned in which a step was invoked with <missing:Z>
\* for ${Z.v} and <missing_key:v> for ${A.v}.
C13_Witness ==
    /\ run_pc = "returned"
    /\ \E n \in spec_nodes :
           /\ attempt_number[n] >= 1
           /\ invoked_with[n][<<"Z", "v">>] = "<missing:Z>"
           /\ invoked_with[n][<<"A", "v">>] = "<missing_key:v>"

\* C14: a node whose agent name or one of whose tool names is not registered
\* is never invoked, never waits for or holds the limiter, never is in backoff:
\* it goes from pending straight to failed with ValueError.
C14_ConfigErrorShortCircuits ==
    \A n \in spec_nodes :
        ConfigBad(n) =>
            /\ attempt_number[n] = 0
            /\ slots_held[n] = 0
            /\ DOMAIN invoked_with[n] = {}
            /\ task_pc[n] \in {"not_created", "pending", "failed"}
            /\ task_pc[n] = "failed" => task_exc[n] = "ValueError"

\* C14 witness: a node with a registered agent and an unregistered tool, and a
\* node with an unregistered agent, both failed; each had an attempt budget of 2.
C14_Witness ==
    \E n \in spec_nodes, m \in spec_nodes :
        /\ agent_name[n] = "echo" /\ tool_names[n] = <<"data_fetcher", "no_such_tool">>
        /\ agent_name[m] = "nope"
        /\ task_pc[n] = "failed" /\ task_pc[m] = "failed"
        /\ max_retries[n] = 2 /\ max_retries[m] = 2

\* C15: a node holds exactly one limiter slot while it is invoking or in
\* backoff and none otherwise (before its first attempt, and once SUCCEEDED or
\* FAILED); the limiter's value accounts for the slots held; after a run that
\* returned every slot is free.
C15_LimiterHoldDiscipline ==
    /\ \A n \in spec_nodes :
           slots_held[n] = (IF task_pc[n] \in {"invoking", "backoff"} THEN 1 ELSE 0)
    /\ sem_value + Cardinality({n \in spec_nodes : slots_held[n] = 1}) = concurrency
    /\ run_pc = "returned" => sem_value = concurrency

\* C15 witness: a run returned after a node that retried failed and another
\* node that had waited for the limiter succeeded.
C15_Witness ==
    /\ run_pc = "returned"
    /\ concurrency = 1
    /\ \E n \in spec_nodes, m \in spec_nodes :
           /\ task_pc[n] = "failed" /\ attempt_number[n] = 2
           /\ task_pc[m] = "succeeded"

\* C16: a failed attempt, timeout or raise alike, sends the node to backoff
\* while attempts remain and makes it FAILED, carrying that exception, when the
\* budget is used up: a node is in backoff only with attempts left, and a
\* node that an attempt made FAILED has used its whole budget and carries
\* TimeoutError or the step's exception.
C16_TimeoutsRetriedAlike ==
    \A n \in spec_nodes :
        /\ task_pc[n] = "backoff" =>
               attempt_number[n] >= 1 /\ attempt_number[n] < Budget(n)
        /\ (task_pc[n] = "failed" /\ ~ConfigBad(n)) =>
               /\ attempt_number[n] = Budget(n)
               /\ task_exc[n] \in {"RuntimeError", "TimeoutError"}

\* C16 witness: a node with max_retries = 2 is FAILED with TimeoutError after 2
\* attempts, another with RuntimeError after 2 attempts.
C16_Witness ==
    \E n \in spec_nodes, m \in spec_nodes :
        /\ max_retries[n] = 2 /\ attempt_number[n] = 2
        /\ task_pc[n] = "failed" /\ task_exc[n] = "TimeoutError"
        /\ max_retries[m] = 2 /\ attempt_number[m] = 2
        /\ task_pc[m] = "failed" /\ task_exc[m] = "RuntimeError"

\* the moves of the claimed machine, on the states of the task: PENDING is
\* not_created/pending, RESOLVING_INPUTS is passed inside the task's first step
\* (which may end waiting for the limiter), INVOKING, RETRY_BACKOFF, SUCCEEDED, FAILED
ClaimedMoves ==
    {<<"not_created", "pending">>, <<"pending", "waiting_sem">>, <<"pending", "invoking">>,
     <<"waiting_sem", "invoking">>, <<"invoking", "backoff">>, <<"backoff", "invoking">>,
     <<"invoking", "succeeded">>, <<"invoking", "failed">>}

MovesWithin(moves) ==
    \A n \in spec_nodes :
        /\ task_pc'[n] # task_pc[n] => <<task_pc[n], task_pc'[n]>> \in moves
        /\ attempt_number'[n] # attempt_number[n] =>
               /\ task_pc'[n] = "invoking" /\ task_pc[n] # "invoking"
               /\ attempt_number'[n] = attempt_number[n] + 1

C18_DependencyOrder ==
    ValidGraph =>
        /\ \A i \in DOMAIN generations :
               generations[i] = {n \in spec_nodes : Depth(n) = i - 1}
        /\ \A e \in spec_edges :
               Started(e[2]) =>
                   task_pc[e[1]] \in Terminal /\ e[1] \in DOMAIN context

\* C19: the inputs a node's step receives at every attempt are the inputs
\* resolved when its task started; they hold <missing:id> for every node of the
\* node's own or a later layer, and the nodes of one layer (which all carry the
\* same inputs) resolve them to the same texts whatever the order in which they
\* start and finish.
C19_ResolutionDeterministic ==
    /\ \A n \in spec_nodes : attempt_number[n] >= 1 => invoked_with[n] = resolved[n]
    /\ (\E n \in spec_nodes, m \in spec_nodes :
            /\ Started(n)
            /\ \/ resolved[n][<<m, "x">>] # MissingText(m)
               \/ Started(m) /\ resolved[m] # resolved[n])
          => \/ LET depth == [x \in spec_nodes |-> Depth(x)] IN
                \A n \in spec_nodes, m \in spec_nodes :
                    Started(n) =>
                        /\ resolved[n][<<m, "x">>] # MissingText(m) => depth[m] < depth[n]
                        /\ (Started(m) /\ resolved[m] # resolved[n]) => depth[m] # depth[n]
             \/ ~ValidGraph

\* C19 witness: with a limiter of capacity 1, a node is in its second attempt,
\* a node of its own layer has finished and has its entry in the context, and the
\* step still receives <missing:id> for that node.
C19_Witness ==
    /\ ValidGraph
    /\ concurrency = 1
    /\ \E n \in spec_nodes, m \in spec_nodes :
           /\ n # m /\ Depth(n) = Depth(m)
           /\ task_pc[n] = "invoking" /\ attempt_number[n] = 2
           /\ m \in DOMAIN context
           /\ invoked_with[n][<<m, "x">>] = MissingText(m)

\* C20: once run_graph has exited, by returning or by raising, no task it
\* launched is pending, waiting for the limiter, invoking or in backoff, and
\* none holds a limiter slot.
C20_NoOrphanedWork ==
    run_pc \in {"returned", "raised"} =>
        \A n \in spec_nodes :
            task_pc[n] \in {"not_created", "succeeded", "failed"} /\ slots_held[n] = 0
====
